---- MODULE Spec2Model ----
(***************************************************************************)
(* State-machine model of the Hog run supervisor of hydraHog.py: the run   *)
(* flags and run clock, the worker records and their respawn bookkeeping,  *)
(* the temperature history, the retained memory pool and the allocator     *)
(* threads that grow it.  Time is counted in whole seconds.                *)
(***************************************************************************)
EXTENDS Integers, Sequences, FiniteSets, TLC

\* ---------------------------------------------------------------- bounds
\* the wall clock is explored up to this many seconds
MaxTime == 24
\* largest cpu_workers a caller passes to start_stress_test
MaxWorkers == 2
\* cap on the length of self.workers
MaxRecords == 3
\* cap on the length of self.temp_readings
MaxSamples == 2
\* cap on the number of allocator threads that exist at once
MaxThreads == 2
\* spawn attempts of one check_workers call whose outcome is chosen freely
MaxFates == 2
\* runs started in one behaviour
MaxRuns == 2

\* ------------------------------------------------------ program constants
max_respawns == 5
respawn_window == 10
\* process.join(timeout=2) in stop_stress_test
JoinTimeout == 2
\* chunk_size = 10 * 1024 * 1024, counted in MB
ChunkMB == 10

\* ------------------------------------------------------- input domains
\* seconds by which the wall clock moves between two handler calls
Deltas == {1, 10}
\* duration arguments of start_stress_test
Durations == {2, 30}
\* ram_mb arguments of start_stress_test
RamTargets == {0, 15}
\* psutil.virtual_memory().available, in MB
AvailMB == {10, 100}
\* sensor keys and the readings a sensor can give
Sensors == {"core0"}
TempValues == {40, 75}

\* what a report is computed from: respawn counters, seconds run and asked for, and
\* the readings of a sensor
MaxReportIds == 3
ReportCounts ==
    {c \in UNION {[0..(n - 1) -> {0, 1, max_respawns}] : n \in 0..MaxReportIds} :
        \A i, j \in DOMAIN c : i < j => c[i] >= c[j]}
ReportActuals == {0, 6, 15, 29, 57, 60}
ReportTargets == {0, 12, 30, 60}
ReportTemps == {40, 45, 75}

\* ---------------------------------------------------------- helpers
\* Python's None, and a value that is not None
None == <<>>
Some(v) == <<v>>
Val(o) == o[1]

\* a dict: a function whose domain is the set of keys present
EmptyMap == [k \in {} |-> 0]
Put(f, k, v) == [x \in (DOMAIN f) \cup {k} |-> IF x = k THEN v ELSE f[x]]
SetDefault(f, k, v) == IF k \in DOMAIN f THEN f ELSE Put(f, k, v)

Min(a, b) == IF a <= b THEN a ELSE b
Max(a, b) == IF a >= b THEN a ELSE b

\* every mapping psutil.sensors_temperatures can be filtered down to
TempMaps == UNION {[S -> TempValues] : S \in SUBSET Sensors}

VARIABLES
    now,                    \* time.time()
    is_running, is_paused, pause_event,
    start_time, pause_start_time, accumulated_pause_time,
    hydra_mode, target_duration, actual_duration,
    workers,                \* self.workers: records [id, alive]
    respawn_counts, last_respawn_time,
    temp_readings, initial_temps, peak_temps,
    ram_hog,                \* number of chunks in self.ram_hog
    ram_threads,            \* the _allocate_ram threads that have not returned
    last,                   \* the handler that ran last and how it ended
    tick_log,               \* what the last check_workers did with each dead worker
    stop_log,               \* what the last stop_stress_test did with each worker
    exhausted,              \* ids refused a respawn since the last start
    live_procs,             \* worker processes alive in the operating system
    run_wall, run_paused,   \* seconds since start, and seconds of them spent paused
    runs,                   \* calls of start_stress_test that started a run
    run_respawns,           \* replacement workers spawned since the last start
    run_workers,            \* cpu_workers of the last start_stress_test that started a run
    run_target,             \* safe_limit (MB) of the allocator that start launched, else 0
    proc,                   \* one hydra_worker process: where it is in its loop
    report                  \* what the last call's _generate_report logged, if it ran

clock == <<now, start_time, pause_start_time, accumulated_pause_time, actual_duration>>
flags == <<is_running, is_paused, pause_event, hydra_mode, target_duration>>
pool == <<workers, live_procs>>
respawns == <<respawn_counts, last_respawn_time, exhausted>>
telemetry == <<temp_readings, initial_temps, peak_temps>>
memory == <<ram_hog, ram_threads>>
ghosts == <<run_wall, run_paused, runs, run_respawns, run_workers, run_target>>
notes == <<last, tick_log, stop_log, report>>
vars == <<clock, flags, pool, respawns, telemetry, memory, ghosts, proc, notes>>

\* the state of the supervisor and its processes: everything but the notes on the
\* last call
hog == <<clock, flags, pool, respawns, telemetry, memory, ghosts, proc>>

\* the notes a call leaves: which handler ran, how it ended (res), the exception
\* that left it (err), the per-worker logs of check_workers and stop_stress_test and
\* the report
Reported(op, res, err, tlog, slog, rep) ==
    /\ last' = [op |-> op, res |-> res, err |-> err]
    /\ tick_log' = tlog
    /\ stop_log' = slog
    /\ report' = rep

Noted(op, res, err, tlog, slog) == Reported(op, res, err, tlog, slog, None)

Done(op, res, err) == Noted(op, res, err, <<>>, <<>>)

\* no worker process is being followed
NoProc == [pc |-> "none", stop_event |-> FALSE, busy_after_stop |-> 0,
           polls_after_stop |-> 0]

Init ==
    /\ now = 1
    /\ is_running = FALSE
    /\ is_paused = FALSE
    /\ pause_event = FALSE
    /\ start_time = None
    /\ pause_start_time = None
    /\ accumulated_pause_time = 0
    /\ hydra_mode = FALSE
    /\ target_duration = None
    /\ actual_duration = None
    /\ workers = <<>>
    /\ respawn_counts = EmptyMap
    /\ last_respawn_time = EmptyMap
    /\ temp_readings = <<>>
    /\ initial_temps = EmptyMap
    /\ peak_temps = EmptyMap
    /\ ram_hog = 0
    /\ ram_threads = <<>>
    /\ last = [op |-> "init", res |-> "ok", err |-> "none"]
    /\ tick_log = <<>>
    /\ stop_log = <<>>
    /\ exhausted = {}
    /\ live_procs = 0
    /\ run_wall = 0
    /\ run_paused = 0
    /\ runs = 0
    /\ run_respawns = 0
    /\ run_workers = 0
    /\ run_target = 0
    /\ proc = NoProc
    /\ report = None

\* ------------------------------------------------------------ environment
\* the wall clock moves on
Advance(d, horizon) ==
    /\ now + d <= horizon
    /\ now' = now + d
    /\ run_wall' = IF is_running THEN run_wall + d ELSE run_wall
    /\ run_paused' = IF is_running /\ is_paused THEN run_paused + d ELSE run_paused
    /\ Done("clock", "ok", "none")
    /\ UNCHANGED <<start_time, pause_start_time, accumulated_pause_time, actual_duration,
                   flags, pool, respawns, telemetry, memory, runs, run_respawns,
                   run_workers, run_target, proc>>

\* a worker process ends on its own (crash, external kill)
WorkerDies(i) ==
    /\ i \in DOMAIN workers
    /\ workers[i].alive
    /\ workers' = [workers EXCEPT ![i].alive = FALSE]
    /\ live_procs' = live_procs - 1
    /\ Done("death", "ok", "none")
    /\ UNCHANGED <<clock, flags, respawns, telemetry, memory, ghosts, proc>>

\* ------------------------------------------------------------ _spawn_worker
\* process.start() succeeded: the record is appended to self.workers
SpawnWorker(ws, worker_id, alive) == Append(ws, [id |-> worker_id, alive |-> alive])

\* the records start_stress_test's loop appends before spawn number failAt raises
\* (failAt = n: none raises)
RECURSIVE SpawnAll(_, _, _)
SpawnAll(ws, i, failAt) ==
    IF i >= failAt THEN ws ELSE SpawnAll(SpawnWorker(ws, i, TRUE), i + 1, failAt)

\* ------------------------------------------------------------ _allocate_ram
\* safe_limit = min(target_mb, available * 0.7), in MB
SafeLimit(target_mb, available) == Min(target_mb, (available * 7) \div 10)

\* the thread start_stress_test launches; run is the run that launched it
NewThread(target_mb, available) ==
    [pc |-> "check", allocated |-> 0, target |-> SafeLimit(target_mb, available),
     run |-> runs + 1]

\* ------------------------------------------------------------ start_stress_test
StartGuard == ~is_running

Start(cpu_workers, ram_mb, duration, hydra_enabled, temps, available, failAt, maxruns) ==
    /\ failAt <= cpu_workers
    /\ Len(ram_threads) < MaxThreads
    /\ IF ~StartGuard
       THEN /\ Done("start", "noop", "none")
            /\ UNCHANGED hog
       ELSE /\ runs < maxruns
            /\ runs' = runs + 1
            /\ is_running' = TRUE
            /\ is_paused' = FALSE
            /\ pause_event' = FALSE
            /\ start_time' = Some(now)
            /\ pause_start_time' = None
            /\ accumulated_pause_time' = 0
            /\ hydra_mode' = hydra_enabled
            /\ target_duration' = Some(duration)
            /\ initial_temps' = temps
            /\ peak_temps' = temps
            /\ temp_readings' = <<>>
            /\ workers' = SpawnAll(workers, 0, failAt)
            /\ live_procs' = live_procs + failAt
            /\ IF failAt < cpu_workers
               THEN /\ ram_threads' = ram_threads
                    /\ Done("start", "ok", "spawn")
               ELSE /\ ram_threads' = Append(ram_threads, NewThread(ram_mb, available))
                    /\ Done("start", "ok", "none")
            /\ exhausted' = {}
            /\ run_wall' = 0
            /\ run_paused' = 0
            /\ run_respawns' = 0
            /\ run_workers' = cpu_workers
            /\ run_target' = IF failAt < cpu_workers THEN 0
                             ELSE SafeLimit(ram_mb, available)
            /\ UNCHANGED <<now, actual_duration, respawn_counts, last_respawn_time,
                           ram_hog, proc>>

\* ------------------------------------------------------------ pause_test
\* pause_test without the test of is_paused
PauseGuard_NoPausedTest == is_running

PauseGuard == is_running /\ ~is_paused

Pause ==
    IF ~PauseGuard
    THEN /\ Done("pause", "noop", "none")
         /\ UNCHANGED hog
    ELSE /\ is_paused' = TRUE
         /\ pause_event' = TRUE
         /\ pause_start_time' = Some(now)
         /\ Done("pause", "ok", "none")
         /\ UNCHANGED <<now, start_time, accumulated_pause_time, actual_duration,
                        is_running, hydra_mode, target_duration,
                        pool, respawns, telemetry, memory, ghosts, proc>>

\* ------------------------------------------------------------ resume_test
ResumeGuard == is_running /\ is_paused

\* the pause measured from the start of the run
PauseDuration_FromStart(t) == t - Val(start_time)

\* pause_duration = time.time() - self.pause_start_time
PauseDuration(t) == t - Val(pause_start_time)

Resume ==
    IF ~ResumeGuard
    THEN /\ Done("resume", "noop", "none")
         /\ UNCHANGED hog
    ELSE /\ IF pause_start_time # None
            THEN /\ accumulated_pause_time' = accumulated_pause_time + PauseDuration(now)
                 /\ pause_start_time' = None
            ELSE UNCHANGED <<accumulated_pause_time, pause_start_time>>
         /\ is_paused' = FALSE
         /\ pause_event' = FALSE
         /\ Done("resume", "ok", "none")
         /\ UNCHANGED <<now, start_time, actual_duration,
                        is_running, hydra_mode, target_duration,
                        pool, respawns, telemetry, memory, ghosts, proc>>

\* ------------------------------------------------------------ stop_stress_test
StopGuard == is_running

\* stop's loop without the terminate() of a worker that outlives the join
StopWorker_NoTerminate(w, hung) ==
    [id |-> w.id, stop_event |-> TRUE, was_alive |-> w.alive,
     after_join |-> w.alive /\ hung, terminated |-> FALSE, alive |-> w.alive /\ hung]

\* one round of stop's loop: set the stop flag, join for JoinTimeout seconds,
\* terminate the process if it is still alive; hung = it ignores the flag that long
StopWorker(w, hung) ==
    LET after_join == w.alive /\ hung
        terminated == after_join
    IN  [id |-> w.id, stop_event |-> TRUE, was_alive |-> w.alive,
         after_join |-> after_join, terminated |-> terminated,
         alive |-> after_join /\ ~terminated]

StopLog(ws, hung) == [i \in DOMAIN ws |-> StopWorker(ws[i], i \in hung)]

\* seconds the joins of the loop take: a full timeout for each hung worker
JoinDelay(slog) == JoinTimeout * Cardinality({i \in DOMAIN slog : slog[i].after_join})

\* stop_stress_test without the fold of the open pause interval
FoldedPause_NoFold(t) == accumulated_pause_time

\* accumulated_pause_time after the final pause interval is folded in
FoldedPause(t) ==
    IF is_paused /\ pause_start_time # None
    THEN accumulated_pause_time + (t - Val(pause_start_time))
    ELSE accumulated_pause_time

\* self.actual_duration as stop computes it at time t
ActualDuration(t, paused_total) ==
    IF start_time # None /\ Val(start_time) # 0
    THEN (t - Val(start_time)) - paused_total
    ELSE 0

\* _generate_report reads delta, bound only when both the history and the baseline
\* are non-empty, whenever the history is non-empty
ReportRaises(readings, baseline) == readings # <<>> /\ baseline = EmptyMap

\* ------------------------------------------------------------ _generate_report
\* sum(d.values())
RECURSIVE SumValues(_)
SumValues(f) ==
    IF DOMAIN f = {} THEN 0
    ELSE LET k == CHOOSE x \in DOMAIN f : TRUE
         IN  f[k] + SumValues([x \in (DOMAIN f) \ {k} |-> f[x]])

TotalRespawns(counts) == SumValues(counts)

Stability(total) ==
    IF total = 0 THEN "STABLE" ELSE IF total > 10 THEN "UNSTABLE" ELSE "MODERATE"

\* completion_pct < p, for completion_pct = (actual / target) * 100, or 0 when the
\* target is not positive
PctBelow(actual, target, p) ==
    IF target > 0 THEN 100 * actual < p * target ELSE 0 < p

CompletionClass(actual, target) ==
    IF PctBelow(actual, target, 50) THEN "early"
    ELSE IF ~PctBelow(actual, target, 95) THEN "success"
    ELSE "partial"

\* the thermal section is written when both the history and the baseline are there
HasThermal(readings, baseline) == readings # <<>> /\ baseline # EmptyMap

\* delta = avg_peak - avg_initial as the fraction DeltaNum / DeltaDen
DeltaNum(baseline, peaks) ==
    SumValues(peaks) * Cardinality(DOMAIN baseline)
        - SumValues(baseline) * Cardinality(DOMAIN peaks)
DeltaDen(baseline, peaks) == Cardinality(DOMAIN baseline) * Cardinality(DOMAIN peaks)

\* delta < c
DeltaBelow(baseline, peaks, c) == DeltaNum(baseline, peaks) < c * DeltaDen(baseline, peaks)
\* delta > c
DeltaAbove(baseline, peaks, c) == DeltaNum(baseline, peaks) > c * DeltaDen(baseline, peaks)

ThermalRating(baseline, peaks) ==
    IF DeltaBelow(baseline, peaks, 10) THEN "EXCELLENT"
    ELSE IF DeltaBelow(baseline, peaks, 20) THEN "GOOD"
    ELSE IF DeltaBelow(baseline, peaks, 35) THEN "FAIR"
    ELSE "POOR"

\* the score before int(), as the fraction ScoreNum / ScoreDen
ScoreDen(target) == IF target > 0 THEN 2 * target ELSE 2

\* the missing-seconds penalty in place of the missing-percentage penalty
MissingHalf_Seconds(actual, target) == (target - actual) * ScoreDen(target)

\* (100 - completion_pct) * 0.5, times ScoreDen
MissingHalf(actual, target) ==
    IF target > 0 THEN 100 * target - 100 * actual ELSE 100

ScoreNum(total, actual, target, hot) ==
    ScoreDen(target) * (100 - Min(total * 5, 50))
        - (IF PctBelow(actual, target, 95) THEN MissingHalf(actual, target) ELSE 0)
        - (IF hot THEN 10 * ScoreDen(target) ELSE 0)

\* int(): truncation towards zero
Trunc(n, d) == IF n >= 0 THEN n \div d ELSE -((-n) \div d)

Score(total, actual, target, hot) ==
    Max(0, Trunc(ScoreNum(total, actual, target, hot), ScoreDen(target)))

\* what _generate_report logs; it ends with the score unless reading delta raises
GenerateReport(counts, actual, target, readings, baseline, peaks) ==
    LET total == TotalRespawns(counts)
        thermal == HasThermal(readings, baseline)
        raises == ReportRaises(readings, baseline)
        hot == thermal /\ DeltaAbove(baseline, peaks, 30)
    IN  [total_respawns |-> total,
         stability |-> Stability(total),
         completion |-> CompletionClass(actual, target),
         thermal |-> IF thermal THEN ThermalRating(baseline, peaks) ELSE "n/a",
         raised |-> raises,
         score |-> IF raises THEN None ELSE Some(Score(total, actual, target, hot))]

\* the report stop_stress_test ends with
StopReport(hung) ==
    GenerateReport(respawn_counts,
                   ActualDuration(now + JoinDelay(StopLog(workers, hung)), FoldedPause(now)),
                   Val(target_duration), temp_readings, initial_temps, peak_temps)

\* the body of stop_stress_test after its guard; hung: the workers (by position)
\* that do not exit within the grace join
StopBody(hung, horizon) ==
    LET slog == StopLog(workers, hung)
        t2 == now + JoinDelay(slog)
    IN  /\ hung \subseteq {i \in DOMAIN workers : workers[i].alive}
        /\ hung = {} \/ t2 <= horizon
        /\ accumulated_pause_time' = FoldedPause(now)
        /\ now' = t2
        /\ workers' = <<>>
        /\ live_procs' = live_procs
              - Cardinality({i \in DOMAIN slog : slog[i].was_alive /\ ~slog[i].alive})
        /\ pause_event' = FALSE
        /\ ram_hog' = 0
        /\ actual_duration' = Some(ActualDuration(t2, FoldedPause(now)))
        /\ is_running' = FALSE
        /\ is_paused' = FALSE
        /\ run_wall' = run_wall + JoinDelay(slog)
        /\ UNCHANGED <<start_time, pause_start_time, hydra_mode, target_duration,
                       respawns, telemetry, ram_threads, run_paused, runs,
                       run_respawns, run_workers, run_target, proc>>

ReportErr == IF ReportRaises(temp_readings, initial_temps) THEN "report" ELSE "none"

Stop(hung, horizon) ==
    IF ~StopGuard
    THEN /\ hung = {}
         /\ Done("stop", "noop", "none")
         /\ UNCHANGED hog
    ELSE /\ StopBody(hung, horizon)
         /\ Reported("stop", "ok", ReportErr, <<>>, StopLog(workers, hung), StopReport(hung))

\* _generate_report called once more on the state stop_stress_test left
Report ==
    /\ ~is_running
    /\ actual_duration # None
    /\ Reported("report", "ok", ReportErr, <<>>, <<>>,
                GenerateReport(respawn_counts, Val(actual_duration), Val(target_duration),
                               temp_readings, initial_temps, peak_temps))
    /\ UNCHANGED hog

\* ------------------------------------------------------------ check_workers
\* the pause-aware elapsed time check_workers computes
EffectiveElapsed(t) == t - Val(start_time) - accumulated_pause_time

\* the duration test one second early
Expired_OneShort(t) == EffectiveElapsed(t) >= Val(target_duration) - 1

Expired(t) == EffectiveElapsed(t) >= Val(target_duration)

\* the peaks overwritten by the latest reading
TrackPeaks_Latest(peaks, temps) ==
    [k \in (DOMAIN peaks) \cup (DOMAIN temps) |->
        IF k \in DOMAIN temps THEN temps[k] ELSE peaks[k]]

\* self.peak_temps[key] = max(self.peak_temps.get(key, temp), temp) for every key
TrackPeaks(peaks, temps) ==
    [k \in (DOMAIN peaks) \cup (DOMAIN temps) |->
        IF k \in DOMAIN temps
        THEN Max(IF k \in DOMAIN peaks THEN peaks[k] ELSE temps[k], temps[k])
        ELSE peaks[k]]

Sampled(readings, temps) == IF temps # EmptyMap THEN Append(readings, temps) ELSE readings

\* the window test with >= for >
WindowElapsed_AtWindow(since) == since >= respawn_window

\* time_since_last > self.respawn_window
WindowElapsed(since) == since > respawn_window

\* self.respawn_counts[worker_id] < self.max_respawns
MayRespawn(count) == count < max_respawns

\* outcome of the k-th spawn attempt of one check_workers call: "ok" (the process
\* runs), "dies" (it is dead when the loop reaches its record), "fail" (start raises)
FateOf(fate, k) == IF k \in DOMAIN fate THEN fate[k] ELSE "ok"

\* the loop over self.workers, which grows while it is iterated: st.i is the position
\* the iterator is at
RECURSIVE CheckLoop(_, _, _, _)
CheckLoop(st, fate, t, hydra) ==
    IF st.raised \/ st.i > Len(st.ws) THEN st
    ELSE
    LET w == st.ws[st.i]
        id == w.id
    IN  IF w.alive THEN CheckLoop([st EXCEPT !.i = st.i + 1], fate, t, hydra)
        ELSE IF ~hydra
        THEN CheckLoop([st EXCEPT !.i = st.i + 1, !.dead = st.dead \cup {st.i},
                           !.log = Append(st.log,
                               [id |-> id, how |-> "retired", since |-> 0,
                                before |-> 0, after |-> 0, stamp |-> 0])],
                       fate, t, hydra)
        ELSE
        LET counts1 == SetDefault(st.counts, id, 0)
            lasts1 == SetDefault(st.lasts, id, t)
            since == t - lasts1[id]
            counts2 == IF WindowElapsed(since) THEN Put(counts1, id, 0) ELSE counts1
            k == st.attempts + 1
            f == FateOf(fate, k)
            entry(how, c, l) == [id |-> id, how |-> how, since |-> since,
                                 before |-> counts1[id], after |-> c[id], stamp |-> l[id]]
        IN  IF MayRespawn(counts2[id])
            THEN IF f = "fail"
                 THEN [st EXCEPT !.raised = TRUE, !.dead = st.dead \cup {st.i},
                          !.counts = counts2, !.lasts = lasts1, !.attempts = k,
                          !.log = Append(st.log, entry("failed", counts2, lasts1))]
                 ELSE LET counts3 == Put(counts2, id, counts2[id] + 1)
                          lasts2 == Put(lasts1, id, t)
                      IN  CheckLoop([st EXCEPT !.i = st.i + 1,
                                        !.ws = SpawnWorker(st.ws, id, f = "ok"),
                                        !.dead = st.dead \cup {st.i},
                                        !.counts = counts3, !.lasts = lasts2,
                                        !.attempts = k,
                                        !.spawned = st.spawned + (IF f = "ok" THEN 1 ELSE 0),
                                        !.log = Append(st.log,
                                                   entry("respawned", counts3, lasts2))],
                                    fate, t, hydra)
            ELSE CheckLoop([st EXCEPT !.i = st.i + 1, !.dead = st.dead \cup {st.i},
                               !.counts = counts2, !.lasts = lasts1,
                               !.denied = st.denied \cup {id},
                               !.log = Append(st.log, entry("denied", counts2, lasts1))],
                           fate, t, hydra)

\* the records left once the dead ones found by the loop are removed
RECURSIVE RemoveAt(_, _, _)
RemoveAt(ws, dead, i) ==
    IF i > Len(ws) THEN <<>>
    ELSE IF i \in dead THEN RemoveAt(ws, dead, i + 1)
    ELSE <<ws[i]>> \o RemoveAt(ws, dead, i + 1)

\* check_workers without the removal of the dead records
Cleanup_KeepsDead(st) == st.ws

Cleanup(st) == IF st.raised THEN st.ws ELSE RemoveAt(st.ws, st.dead, 1)

CheckResult(fate) ==
    CheckLoop([ws |-> workers, i |-> 1, counts |-> respawn_counts,
               lasts |-> last_respawn_time, dead |-> {}, attempts |-> 0, spawned |-> 0,
               denied |-> {}, log |-> <<>>, raised |-> FALSE],
              fate, now, hydra_mode)

\* the part of check_workers that runs while the test is running and not paused
CheckBody(temps, fate) ==
    \E r \in {CheckResult(fate)} :
        /\ \A k \in DOMAIN fate : k > r.attempts => fate[k] = "ok"
        /\ Len(Cleanup(r)) <= MaxRecords
        /\ Len(temp_readings) < MaxSamples \/ temps = EmptyMap
        /\ temp_readings' = Sampled(temp_readings, temps)
        /\ peak_temps' = IF temps # EmptyMap THEN TrackPeaks(peak_temps, temps)
                         ELSE peak_temps
        /\ workers' = Cleanup(r)
        /\ live_procs' = live_procs + r.spawned
        /\ respawn_counts' = r.counts
        /\ last_respawn_time' = r.lasts
        /\ exhausted' = exhausted \cup r.denied
        /\ run_respawns' = run_respawns
              + Cardinality({k \in DOMAIN r.log : r.log[k].how = "respawned"})
        /\ Noted("tick", "ok", IF r.raised THEN "spawn" ELSE "none", r.log, <<>>)
        /\ UNCHANGED <<clock, flags, initial_temps, memory, run_wall, run_paused, runs,
                       run_workers, run_target, proc>>

\* check_workers without the tests of is_paused
Tick_IgnoresPause(temps, fate, hung, horizon) ==
    IF ~is_running
    THEN /\ temps = EmptyMap /\ hung = {} /\ \A k \in DOMAIN fate : fate[k] = "ok"
         /\ Done("tick", "noop", "none")
         /\ UNCHANGED hog
    ELSE IF Expired(now)
    THEN /\ temps = EmptyMap /\ \A k \in DOMAIN fate : fate[k] = "ok"
         /\ StopBody(hung, horizon)
         /\ Reported("tick", "expired", ReportErr, <<>>, StopLog(workers, hung),
                     StopReport(hung))
    ELSE /\ hung = {}
         /\ CheckBody(temps, fate)

TickGuard == is_running

Tick(temps, fate, hung, horizon) ==
    IF ~TickGuard
    THEN /\ temps = EmptyMap /\ hung = {} /\ \A k \in DOMAIN fate : fate[k] = "ok"
         /\ Done("tick", "noop", "none")
         /\ UNCHANGED hog
    ELSE IF is_paused
    THEN /\ temps = EmptyMap /\ hung = {} /\ \A k \in DOMAIN fate : fate[k] = "ok"
         /\ Done("tick", "ok", "none")
         /\ UNCHANGED hog
    ELSE IF Expired(now)
    THEN /\ temps = EmptyMap /\ \A k \in DOMAIN fate : fate[k] = "ok"
         /\ StopBody(hung, horizon)
         /\ Reported("tick", "expired", ReportErr, <<>>, StopLog(workers, hung),
                     StopReport(hung))
    ELSE /\ hung = {}
         /\ CheckBody(temps, fate)

\* ------------------------------------------------------------ get_stats
\* the open pause left out of the elapsed time
CurrentPauseDuration_Zero(t) == 0

\* current_pause_duration: the length of the pause that is open, if one is
CurrentPauseDuration(t) ==
    IF is_paused /\ pause_start_time # None THEN t - Val(pause_start_time) ELSE 0

\* get_stats()['elapsed'] at time t (the times of the model are whole seconds)
StatsElapsed(t) ==
    IF start_time # None /\ Val(start_time) # 0
    THEN (t - Val(start_time)) - accumulated_pause_time - CurrentPauseDuration(t)
    ELSE 0

\* ------------------------------------------------------------ _allocate_ram loop
DropAt(s, k) == [i \in 1..(Len(s) - 1) |-> IF i < k THEN s[i] ELSE s[i + 1]]

\* the loop test without the test of is_running
LoopTest_IgnoresRunning(th) == th.allocated < th.target

\* while allocated < target_bytes and self.is_running
LoopTest(th) == th.allocated < th.target /\ is_running

AllocCheck(k) ==
    /\ k \in DOMAIN ram_threads
    /\ ram_threads[k].pc = "check"
    /\ ram_threads' =
          IF LoopTest(ram_threads[k])
          THEN [ram_threads EXCEPT ![k].pc = "alloc"]
          ELSE DropAt(ram_threads, k)
    /\ Done("alloc", "ok", "none")
    /\ UNCHANGED <<clock, flags, pool, respawns, telemetry, ram_hog, ghosts, proc>>

\* the loop body: a chunk is appended, or os.urandom raises and the loop breaks
AllocChunk(k, oom) ==
    /\ k \in DOMAIN ram_threads
    /\ ram_threads[k].pc = "alloc"
    /\ IF oom
       THEN /\ ram_threads' = DropAt(ram_threads, k)
            /\ ram_hog' = ram_hog
       ELSE /\ ram_threads' = [ram_threads EXCEPT ![k].pc = "check",
                                   ![k].allocated = ram_threads[k].allocated + ChunkMB]
            /\ ram_hog' = ram_hog + 1
    /\ Done("alloc", IF oom THEN "failed" ELSE "ok", "none")
    /\ UNCHANGED <<clock, flags, pool, respawns, telemetry, ghosts, proc>>

\* ------------------------------------------------------------ hydra_worker
\* the counters of what a worker did after its stop flag was set stop at MaxCycles
MaxCycles == 2

Counted(n) == Min(n + 1, MaxCycles)

\* the process start_stress_test spawned: at the head of its loop, flag clear
FreshProc == [pc |-> "while", stop_event |-> FALSE, busy_after_stop |-> 0,
              polls_after_stop |-> 0]

\* a pause poll that goes on polling without looking at the stop flag
AfterPausePoll_KeepsPolling == "if_pause"

\* continue: from the pause poll back to the test of the stop flag
AfterPausePoll == "while"

\* while not stop_event.is_set(): the process returns when the flag is set
WorkerLoopTest ==
    /\ proc.pc = "while"
    /\ IF proc.stop_event
       THEN /\ proc' = [proc EXCEPT !.pc = "done"]
            /\ workers' = [i \in DOMAIN workers |-> [workers[i] EXCEPT !.alive = FALSE]]
            /\ live_procs' = 0
       ELSE /\ proc' = [proc EXCEPT !.pc = "if_pause"]
            /\ UNCHANGED pool
    /\ Done("worker", "ok", "none")
    /\ UNCHANGED <<clock, flags, respawns, telemetry, memory, ghosts>>

\* if pause_event.is_set(): sleep and poll again, else start a busy cycle
WorkerPauseTest ==
    /\ proc.pc = "if_pause"
    /\ proc' =
          IF pause_event
          THEN [proc EXCEPT !.pc = "pause_sleep",
                            !.polls_after_stop =
                                IF proc.stop_event THEN Counted(@) ELSE @]
          ELSE [proc EXCEPT !.pc = "busy",
                            !.busy_after_stop =
                                IF proc.stop_event THEN Counted(@) ELSE @]
    /\ Done("worker", "ok", "none")
    /\ UNCHANGED <<clock, flags, pool, respawns, telemetry, memory, ghosts>>

\* time.sleep(0.1); continue
WorkerPausePoll ==
    /\ proc.pc = "pause_sleep"
    /\ proc' = [proc EXCEPT !.pc = AfterPausePoll]
    /\ Done("worker", "ok", "none")
    /\ UNCHANGED <<clock, flags, pool, respawns, telemetry, memory, ghosts>>

\* the busy loop runs for busy_time and ends
WorkerBusy ==
    /\ proc.pc = "busy"
    /\ proc' = [proc EXCEPT !.pc = "sleep"]
    /\ Done("worker", "ok", "none")
    /\ UNCHANGED <<clock, flags, pool, respawns, telemetry, memory, ghosts>>

\* time.sleep(sleep_time), then back to the head of the loop
WorkerSleep ==
    /\ proc.pc = "sleep"
    /\ proc' = [proc EXCEPT !.pc = "while"]
    /\ Done("worker", "ok", "none")
    /\ UNCHANGED <<clock, flags, pool, respawns, telemetry, memory, ghosts>>

hydra_worker ==
    \/ WorkerLoopTest
    \/ WorkerPauseTest
    \/ WorkerPausePoll
    \/ WorkerBusy
    \/ WorkerSleep

\* stop_stress_test up to worker_data['stop_event'].set(): the final pause is folded
\* in and the flag of the worker is set; the caller then waits in join()
StopSignal ==
    /\ StopGuard
    /\ proc.pc # "none"
    /\ ~proc.stop_event
    /\ accumulated_pause_time' = FoldedPause(now)
    /\ proc' = [proc EXCEPT !.stop_event = TRUE]
    /\ Done("stop_event", "ok", "none")
    /\ UNCHANGED <<now, start_time, pause_start_time, actual_duration,
                   flags, pool, respawns, telemetry, memory, ghosts>>

\* ------------------------------------------------------------ report inputs
\* the sensor mappings and sample histories a report is computed from, and the peaks
\* that check_workers has tracked over a history
ReportMaps == UNION {[S -> ReportTemps] : S \in SUBSET Sensors}
ReportHistories == {<<>>} \cup {<<m>> : m \in ReportMaps \ {EmptyMap}}

RECURSIVE PeaksOf(_, _, _)
PeaksOf(peaks, readings, i) ==
    IF i > Len(readings) THEN peaks
    ELSE PeaksOf(TrackPeaks(peaks, readings[i]), readings, i + 1)

\* ------------------------------------------------------------ properties
Alive(w) == w.alive
Stopped == (last.op = "stop" /\ last.res = "ok") \/ (last.op = "tick" /\ last.res = "expired")

\* C1: the duration stop records is the wall-clock time from start to stop less the
\* time spent paused, whatever pauses and resumes came between and however the run
\* was stopped (seconds are whole, so the two are equal).
C1_ActualDuration ==
    (~is_running /\ runs > 0) =>
        /\ actual_duration # None
        /\ Val(actual_duration) = run_wall - run_paused

\* a stop called with a pause open, after an earlier pause was closed by resume
C1_StopWhilePaused ==
    /\ last.op = "stop" /\ last.res = "ok"
    /\ pause_start_time # None
    /\ JoinDelay(stop_log) = 0
    /\ accumulated_pause_time > now - Val(pause_start_time)
    /\ now - Val(pause_start_time) > 0
    /\ Val(actual_duration) > 0

\* C2: no respawn count exceeds max_respawns, and an id that was refused a respawn
\* is never spawned again in that run.
C2_RespawnLimit ==
    [][/\ \A id \in DOMAIN respawn_counts' : respawn_counts'[id] <= max_respawns
       /\ \A k \in DOMAIN tick_log' :
            tick_log'[k].how = "respawned" => tick_log'[k].id \notin exhausted]_vars

\* C3: the sample history grows only by a tick of a running, unpaused test, and a
\* tick of a paused test leaves the history, the peaks, the respawn counts and times
\* and the worker set as they were and the test running and paused.
C3_PausedTick ==
    [][/\ Len(temp_readings') > Len(temp_readings) =>
            last'.op = "tick" /\ is_running /\ ~is_paused
       /\ (last'.op = "tick" /\ is_running /\ is_paused) =>
            /\ UNCHANGED <<temp_readings, peak_temps, respawn_counts,
                           last_respawn_time, workers>>
            /\ is_running' /\ is_paused']_vars

\* a tick of a paused test that had a dead worker to handle and a history to extend
C3_TickWhilePaused ==
    /\ last.op = "tick" /\ last.res = "ok"
    /\ is_running /\ is_paused /\ hydra_mode
    /\ \E i \in DOMAIN workers : ~workers[i].alive
    /\ respawn_counts # EmptyMap
    /\ temp_readings # <<>>

\* C4: right after a start that was accepted, every respawn count is 0, no last
\* respawn time is kept, the history is empty, the peaks are the baseline and the
\* pause clock is reset.
C4_StartResets ==
    (last.op = "start" /\ last.res = "ok") =>
        /\ \A id \in DOMAIN respawn_counts : respawn_counts[id] = 0
        /\ last_respawn_time = EmptyMap
        /\ temp_readings = <<>>
        /\ peak_temps = initial_temps
        /\ accumulated_pause_time = 0
        /\ pause_start_time = None

\* C5: a handler called in a state that does not permit it changes nothing.
C5_NoOps ==
    [][/\ (last'.op = "start" /\ is_running) => UNCHANGED hog
       /\ (last'.op = "pause" /\ (~is_running \/ is_paused)) => UNCHANGED hog
       /\ (last'.op = "resume" /\ (~is_running \/ ~is_paused)) => UNCHANGED hog
       /\ (last'.op = "stop" /\ ~is_running) => UNCHANGED hog
       /\ (last'.op = "tick" /\ ~is_running) => UNCHANGED hog]_vars

\* a start refused because a test is running, paused, with a reading taken, a respawn
\* counted and a worker dead
C5_StartWhilePaused ==
    /\ last.op = "start" /\ last.res = "noop"
    /\ is_running /\ is_paused
    /\ temp_readings # <<>>
    /\ \E id \in DOMAIN respawn_counts : respawn_counts[id] > 0
    /\ \E i \in DOMAIN workers : ~workers[i].alive

\* C6: stop sets the stop flag of every worker record, terminates each worker still
\* alive after the join, and leaves no worker process alive, no worker record, the
\* pause signal clear and the test neither running nor paused.
C6_StopCancels ==
    [][((last'.op = "stop" /\ last'.res = "ok") \/ (last'.op = "tick" /\ last'.res = "expired")) =>
          /\ Len(stop_log') = Len(workers)
          /\ \A i \in DOMAIN workers :
                /\ stop_log'[i].id = workers[i].id
                /\ stop_log'[i].stop_event
                /\ stop_log'[i].after_join => stop_log'[i].terminated
                /\ ~stop_log'[i].alive
          /\ live_procs' = 0
          /\ workers' = <<>>
          /\ ~pause_event' /\ ~is_running' /\ ~is_paused'
          /\ StartGuard']_vars

\* a stop that terminated one worker and saw another exit within the join
C6_StopForcedAndGraceful ==
    /\ last.op = "stop" /\ last.res = "ok"
    /\ \E i \in DOMAIN stop_log : stop_log[i].terminated
    /\ \E i \in DOMAIN stop_log : stop_log[i].was_alive /\ ~stop_log[i].after_join

\* C7: once stop has returned the memory pool is empty and stays empty until the
\* next start.
C7_PoolReleased == ~is_running => ram_hog = 0

\* C8: with hydra mode off a tick removes the workers it finds dead and spawns
\* nothing, the respawn counts and times stay as they are, and the test goes on
\* running, with no worker if need be, until it is stopped or its duration expires.
C8_NoRespawn ==
    [][/\ (~hydra_mode /\ is_running /\ ~is_paused /\ last'.op = "tick" /\ last'.res = "ok") =>
            /\ workers' = SelectSeq(workers, Alive)
            /\ UNCHANGED <<respawn_counts, last_respawn_time, live_procs>>
            /\ is_running'
       /\ (~hydra_mode' /\ last'.op # "start") => live_procs' <= live_procs
       /\ (~hydra_mode /\ is_running /\ ~is_running') =>
            \/ last'.op = "stop"
            \/ last'.op = "tick" /\ last'.res = "expired"]_vars

\* a tick that found both workers of the test dead and left it running with none
C8_AllWorkersGone ==
    /\ last.op = "tick" /\ last.res = "ok"
    /\ is_running /\ ~hydra_mode
    /\ workers = <<>>
    /\ Len(tick_log) = 2
    /\ \A k \in DOMAIN tick_log : tick_log[k].how = "retired"

\* C9: when a death is handled in hydra mode, a last respawn more than
\* respawn_window seconds ago resets the count to 0 before the limit is tested, so a
\* respawn makes it 1; otherwise the count is kept, and a respawn adds exactly 1 to
\* it; a respawn sets the last respawn time to now.
C9_SharpReset ==
    \A k \in DOMAIN tick_log :
        LET e == tick_log[k] IN
        /\ (e.how = "respawned" /\ e.since > respawn_window) =>
                e.after = 1 /\ e.stamp = now
        /\ (e.how = "respawned" /\ e.since <= respawn_window) =>
                e.after = e.before + 1 /\ e.before < max_respawns /\ e.stamp = now
        /\ e.how = "denied" =>
                e.since <= respawn_window /\ e.before = max_respawns /\ e.after = e.before
        /\ e.how = "failed" =>
                e.after = (IF e.since > respawn_window THEN 0 ELSE e.before)
        /\ (\A j \in DOMAIN tick_log : j > k => tick_log[j].id # e.id) =>
                respawn_counts[e.id] = e.after /\ last_respawn_time[e.id] = e.stamp

\* a death handled more than the window after the id's second respawn
C9_ResetAfterWindow ==
    \E k \in DOMAIN tick_log :
        /\ tick_log[k].how = "respawned"
        /\ tick_log[k].since > respawn_window
        /\ tick_log[k].before >= 2
        /\ tick_log[k].after = 1

\* C10: a process that fails to start raises nothing out of start or tick.
C10_SpawnFailureCaught == last.err # "spawn"

\* C11: the report stop ends with always completes and carries a score, whatever the
\* sensors gave: with no baseline or no history its thermal section reads as not
\* available, and no exception leaves stop.
C11_ReportCompletes ==
    Stopped =>
        /\ report # None
        /\ ~report.raised
        /\ report.score # None
        /\ (initial_temps = EmptyMap \/ temp_readings = <<>>) => report.thermal = "n/a"
        /\ last.err = "none"

\* C12: the total the report gives is the number of replacement workers spawned
\* during the run, and its tier is STABLE for none, MODERATE for 1 to 10 and UNSTABLE
\* for more, so that more respawns never give a better tier.
C12_ReportCountsRespawns ==
    Stopped =>
        /\ report.total_respawns = run_respawns
        /\ report.stability =
              (IF run_respawns = 0 THEN "STABLE"
               ELSE IF run_respawns > 10 THEN "UNSTABLE" ELSE "MODERATE")

\* what the score is claimed to depend on: the total of the respawn counters, the
\* completion percentage, and whether there are samples with the thermal delta where
\* the report computes one
SameTotal(c1, c2) == TotalRespawns(c1) = TotalRespawns(c2)

SamePct(a1, t1, a2, t2) ==
    (IF t1 > 0 THEN a1 ELSE 0) * (IF t2 > 0 THEN t2 ELSE 1)
        = (IF t2 > 0 THEN a2 ELSE 0) * (IF t1 > 0 THEN t1 ELSE 1)

SameThermal(h1, b1, p1, h2, b2, p2) ==
    /\ (h1 # <<>>) = (h2 # <<>>)
    /\ HasThermal(h1, b1) = HasThermal(h2, b2)
    /\ HasThermal(h1, b1) =>
          DeltaNum(b1, p1) * DeltaDen(b2, p2) = DeltaNum(b2, p2) * DeltaDen(b1, p1)

\* C13: two computations of the report from the same total of respawns, the same
\* completion percentage, the same presence of samples and the same thermal delta
\* end with the same score (or both without one), whatever else differs between the
\* two states.
C13_ScoreDeterministic ==
    last.op = "report" =>
        \A c2 \in {c \in ReportCounts : SameTotal(respawn_counts, c)} :
        \A a2 \in ReportActuals :
        \A t2 \in {t \in ReportTargets :
                      SamePct(Val(actual_duration), Val(target_duration), a2, t)} :
        \A h2 \in ReportHistories :
        \A b2 \in {b \in ReportMaps :
                      SameThermal(temp_readings, initial_temps, peak_temps,
                                  h2, b, PeaksOf(b, h2, 1))} :
            GenerateReport(c2, a2, t2, h2, b2, PeaksOf(b2, h2, 1)).score = report.score

\* a report with a score that shares its inputs with a run of another duration, other
\* counters and other temperatures
C13_SameInputsOtherRun ==
    /\ last.op = "report"
    /\ report.score # None
    /\ HasThermal(temp_readings, initial_temps)
    /\ \E c2 \in ReportCounts, a2 \in ReportActuals, t2 \in ReportTargets,
          h2 \in ReportHistories, b2 \in ReportMaps :
            /\ SameTotal(respawn_counts, c2)
            /\ SamePct(Val(actual_duration), Val(target_duration), a2, t2)
            /\ SameThermal(temp_readings, initial_temps, peak_temps,
                           h2, b2, PeaksOf(b2, h2, 1))
            /\ c2 # respawn_counts /\ t2 # Val(target_duration) /\ b2 # initial_temps
            /\ PctBelow(a2, t2, 95)

\* the score of the report as claimed, for the state the report was computed from
ScoreAsClaimed ==
    LET s == Val(report.score)
        r == report.total_respawns
        a == Val(actual_duration)
        t == Val(target_duration)
        d == IF t > 0 THEN 2 * t ELSE 2
        below95 == IF t > 0 THEN 100 * a < 95 * t ELSE TRUE
        thermal == temp_readings # <<>> /\ initial_temps # EmptyMap
        over30 == thermal /\ DeltaNum(initial_temps, peak_temps)
                                > 30 * DeltaDen(initial_temps, peak_temps)
        \* the score before truncation, times d
        x == d * (100 - (IF 5 * r < 50 THEN 5 * r ELSE 50) - (IF over30 THEN 10 ELSE 0))
                - (IF below95 THEN (IF t > 0 THEN 100 * (t - a) ELSE 100) ELSE 0)
    IN  /\ s \in 0..100
        /\ IF x < 0 THEN s = 0 ELSE d * s <= x /\ x < d * (s + 1)
        /\ (t = 60 /\ ~below95 /\ r = 0 /\ thermal
                /\ DeltaNum(initial_temps, peak_temps)
                      = 5 * DeltaDen(initial_temps, peak_temps)) =>
              /\ report.stability = "STABLE"
              /\ report.completion = "success"
              /\ report.thermal = "EXCELLENT"
              /\ s = 100

\* C14: every report gives as its score the integer part, not below 0, of
\* 100 - min(5 * respawns, 50) - (100 - completion) / 2 if completion is below 95
\* - 10 if the thermal delta exceeds 30, a value in 0..100; for a target of 60 s
\* completed to 95 % or more with no respawn and a delta of 5 degrees it gives STABLE,
\* the success class, the minimal-heating tier and the score 100.
C14_ScoreFormula ==
    report # None => report.score # None /\ ScoreAsClaimed

\* C15: a running test stops running only in a call of stop or in a tick of the
\* unpaused test that finds the time run, less the time paused, at or past the
\* duration asked for: not when a worker dies, a respawn is refused, the allocator
\* fails or the sensors give nothing.
C15_OnlyStopEndsRun ==
    [][(is_running /\ ~is_running') =>
          \/ last'.op = "stop" /\ last'.res = "ok"
          \/ /\ last'.op = "tick" /\ last'.res = "expired"
             /\ ~is_paused
             /\ run_wall - run_paused >= Val(target_duration)]_vars

\* a tick that refused the respawn of the last worker and left the test running with
\* no worker and no sample
C15_RunSurvivesExhaustion ==
    /\ last.op = "tick" /\ last.res = "ok"
    /\ is_running
    /\ workers = <<>>
    /\ temp_readings = <<>>
    /\ \E k \in DOMAIN tick_log : tick_log[k].how = "denied"

\* C16: pause leaves the accumulated pause time as it is and notes the time; the
\* resume that follows adds exactly the seconds passed since then (0 when it follows
\* at once), so that the accumulated pause time is the time the run has spent paused,
\* and leaves the test running and not paused, the pause signal clear and no pause
\* start time; neither changes the worker records, the processes alive, the respawn
\* state or the telemetry.
C16_PauseResume ==
    [][/\ (last'.op = "pause" /\ last'.res = "ok") =>
            /\ pause_start_time' = Some(now)
            /\ is_running' /\ is_paused' /\ pause_event'
            /\ UNCHANGED <<accumulated_pause_time, pool, respawns, telemetry>>
       /\ (last'.op = "resume" /\ last'.res = "ok") =>
            /\ pause_start_time # None
            /\ accumulated_pause_time' = accumulated_pause_time + (now - Val(pause_start_time))
            /\ accumulated_pause_time' = run_paused
            /\ is_running' /\ ~is_paused' /\ ~pause_event'
            /\ pause_start_time' = None
            /\ UNCHANGED <<pool, respawns, telemetry>>]_vars

\* a resume some seconds after a pause, in a run that also ran unpaused for some
\* seconds and whose worker has died
C16_ResumeAfterPause ==
    /\ last.op = "resume" /\ last.res = "ok"
    /\ accumulated_pause_time > 0
    /\ accumulated_pause_time < run_wall
    /\ \E i \in DOMAIN workers : ~workers[i].alive

\* the elapsed time get_stats gives, against the clock of the run
ElapsedAsClaimed ==
    /\ StatsElapsed(now) >= 0
    /\ is_running =>
          /\ StatsElapsed(now) = run_wall - run_paused
          /\ StatsElapsed(now) = (now - Val(start_time)) - accumulated_pause_time
                                    - (IF is_paused THEN now - Val(pause_start_time) ELSE 0)

\* C17: the elapsed time get_stats gives is the time since start less the accumulated
\* pause time and less the length of the open pause; it is never negative, while the
\* test runs it is the time run less the time paused, it never goes down from one
\* moment of a run to the next, and it stays the same for as long as the test is
\* paused.
C17_ElapsedFrozenWhilePaused ==
    [][/\ ElapsedAsClaimed'
       /\ (is_running /\ is_running') => StatsElapsed(now)' >= StatsElapsed(now)
       /\ (is_running /\ is_paused /\ is_running' /\ is_paused') =>
              StatsElapsed(now)' = StatsElapsed(now)]_vars

\* the clock has moved during the second pause of a run
C17_ClockMovesWhilePaused ==
    /\ last.op = "clock"
    /\ is_running /\ is_paused
    /\ now > Val(pause_start_time)
    /\ accumulated_pause_time > 0
    /\ StatsElapsed(now) > 0

\* the values seen for sensor k since the start: its baseline, if it has one, and
\* every reading sampled for it
SeenFor(k) ==
    (IF k \in DOMAIN initial_temps THEN {initial_temps[k]} ELSE {})
        \cup {temp_readings[i][k] : i \in {j \in DOMAIN temp_readings :
                                             k \in DOMAIN temp_readings[j]}}

\* C18: the peaks start as the baseline captured by start; from then on a sensor has
\* a peak exactly when it has a baseline or a sample, the peak is the largest value
\* among them, and no peak goes down or is dropped within a run; a tick whose sensor
\* mapping is empty appends no sample and changes no peak.
C18_PeaksMonotone ==
    [][/\ (last'.op = "start" /\ last'.res = "ok") =>
              peak_temps' = initial_temps' /\ temp_readings' = <<>>
       /\ \A k \in Sensors :
              /\ (k \in DOMAIN peak_temps') = (SeenFor(k)' # {})
              /\ k \in DOMAIN peak_temps' =>
                    /\ peak_temps'[k] \in SeenFor(k)'
                    /\ \A v \in SeenFor(k)' : v <= peak_temps'[k]
       /\ (last'.op # "start") =>
              \A k \in DOMAIN peak_temps :
                  k \in DOMAIN peak_temps' /\ peak_temps'[k] >= peak_temps[k]
       /\ (last'.op = "tick" /\ Len(temp_readings') = Len(temp_readings)) =>
              peak_temps' = peak_temps]_vars

\* a tick that sampled a reading below the peak of its sensor
C18_ReadingBelowPeak ==
    /\ last.op = "tick" /\ last.res = "ok"
    /\ Len(temp_readings) = 2
    /\ \E k \in Sensors :
          /\ k \in DOMAIN initial_temps
          /\ k \in DOMAIN temp_readings[2]
          /\ temp_readings[1][k] > initial_temps[k]
          /\ temp_readings[2][k] < peak_temps[k]

\* C19: every tick of a running, unpaused test, the one that finds the duration
\* expired included, handles each worker it finds dead (removes it, and in hydra mode
\* respawns it or refuses to) before it tests the elapsed time and stops.
C19_EveryTickHandlesDead ==
    [][(last'.op = "tick" /\ is_running /\ ~is_paused) =>
          Len(tick_log') >= Cardinality({i \in DOMAIN workers : ~workers[i].alive})]_vars

\* C20: a tick of a paused test never stops it; a tick of the unpaused test stops it
\* as soon as the time run less the time paused has reached the duration; and every
\* test that is started is in the end stopped, before any other is started, with its
\* report complete.
C20_EveryRunEndsWithReport ==
    /\ [][(last'.op = "tick" /\ is_running /\ is_paused) => is_running']_vars
    /\ [][(last'.op = "tick" /\ is_running /\ ~is_paused
              /\ run_wall - run_paused >= Val(target_duration)) => ~is_running']_vars
    /\ \A n \in 1..MaxRuns :
          (is_running /\ runs = n)
              ~> (~is_running /\ runs = n /\ report # None /\ report.score # None)

\* ---- C21: a worker process leaves its loop only once its stop flag is set; once
\* the flag is set it starts at most one more busy/sleep cycle or pause poll, none
\* after the first, and then returns, also when the pause flag is set (the stop
\* flag is tested again after every pause poll); it starts no busy cycle at a test
\* that finds the pause flag set.
C21_WorkerObeysFlags ==
    /\ [](proc.pc = "done" => proc.stop_event)
    /\ [](proc.busy_after_stop + proc.polls_after_stop <= 1)
    /\ [][/\ (proc.pc # "busy" /\ proc'.pc = "busy") => ~pause_event
          /\ (proc.pc = "if_pause" /\ proc'.pc # "if_pause" /\ pause_event)
                => proc'.pc = "pause_sleep"
          /\ (proc.pc = "pause_sleep" /\ proc'.pc # "pause_sleep")
                => proc'.pc = "while"]_vars
    /\ (proc.stop_event ~> proc.pc = "done")

\* the worker was stopped while paused and returned after the one poll it was in
C21_StoppedWhilePaused ==
    /\ proc.pc = "done"
    /\ pause_event
    /\ proc.polls_after_stop = 1
    /\ proc.busy_after_stop = 0

\* the allocator threads that run n launched and that have not returned
ThreadsOf(n) == {k \in DOMAIN ram_threads : ram_threads[k].run = n}

\* ---- C22: the allocator grows the pool one chunk of ChunkMB at a time; it goes on
\* to a chunk only from a loop test that found its total below its clamped target
\* and the supervisor running, and returns at the first test that finds otherwise or
\* when an allocation fails; a failed allocation raises nothing and changes neither
\* the flags nor the workers nor the pool; once its run has stopped the thread
\* returns.
C22_AllocatorLoop ==
    /\ [][/\ ram_hog' > ram_hog =>
                /\ ram_hog' = ram_hog + 1
                /\ \E k \in DOMAIN ram_threads :
                      /\ ram_threads[k].pc = "alloc"
                      /\ ram_threads' = [ram_threads EXCEPT ![k].pc = "check",
                                             ![k].allocated = @ + ChunkMB]
          /\ \A k \in DOMAIN ram_threads :
                (/\ last'.op = "alloc"
                 /\ ram_threads[k].pc = "check"
                 /\ Len(ram_threads') = Len(ram_threads)
                 /\ ram_threads'[k].pc = "alloc")
                   => (ram_threads[k].allocated < ram_threads[k].target /\ is_running)
          /\ (last'.op = "alloc" /\ Len(ram_threads') < Len(ram_threads)) =>
                \E k \in DOMAIN ram_threads :
                    /\ ram_threads' = DropAt(ram_threads, k)
                    /\ \/ /\ ram_threads[k].pc = "check"
                          /\ ram_threads[k].allocated >= ram_threads[k].target
                                \/ ~is_running
                       \/ /\ ram_threads[k].pc = "alloc"
                          /\ last'.res = "failed"
          /\ (last'.op = "alloc" /\ last'.res = "failed") =>
                /\ last'.err = "none"
                /\ Len(ram_threads') < Len(ram_threads)
                /\ UNCHANGED <<flags, pool, ram_hog>>]_vars
    /\ [](\A k \in DOMAIN ram_threads :
             ram_threads[k].pc = "alloc" =>
                 ram_threads[k].allocated < ram_threads[k].target)
    /\ \A n \in 1..MaxRuns :
          (ThreadsOf(n) # {} /\ ~(is_running /\ runs = n)) ~> (ThreadsOf(n) = {})

\* an allocation failed after a first chunk while the test went on running
C22_FailedAfterChunk ==
    /\ last.op = "alloc"
    /\ last.res = "failed"
    /\ ram_hog = 1
    /\ is_running
    /\ Len(workers) = 1
    /\ ram_threads = <<>>

\* ---- C23: paused implies running; the pause signal is set exactly when the test
\* is paused; pause_start_time is set exactly when the test is paused; when the
\* test is not running there is no worker record.
C23_FlagsConsistent ==
    /\ is_paused => is_running
    /\ pause_event <=> is_paused
    /\ pause_start_time # None <=> is_paused
    /\ ~is_running => workers = <<>>

\* the parts of C23 that do not mention pause_start_time
C23_FlagsButPauseStart ==
    /\ is_paused => is_running
    /\ pause_event <=> is_paused
    /\ ~is_running => workers = <<>>

\* the ids of the records in a list of worker records
IdsOf(ws) == {ws[i].id : i \in DOMAIN ws}

OneRecordPerId(ws) == \A i, j \in DOMAIN ws : ws[i].id = ws[j].id => i = j

\* ---- C24: after a start_stress_test that started a run and after every
\* check_workers that ran to its end, there is at most one record per worker id,
\* every id is in 0..cpu_workers-1 and there are at most cpu_workers records; the
\* replacements a tick spawns carry ids of workers that were in the list.
C24_OneRecordPerWorker ==
    [][(/\ last'.op \in {"start", "tick"}
        /\ last'.res = "ok"
        /\ last'.err = "none"
        /\ is_running')
          => /\ OneRecordPerId(workers')
             /\ IdsOf(workers') \subseteq 0..(run_workers' - 1)
             /\ Len(workers') <= run_workers'
             /\ last'.op = "tick" => IdsOf(workers') \subseteq IdsOf(workers)]_vars

\* C24 for the ticks that follow no spawn failure of the run
C24_WithoutSpawnFailure ==
    [][(/\ last'.op \in {"start", "tick"}
        /\ last'.res = "ok"
        /\ last'.err = "none"
        /\ is_running'
        /\ OneRecordPerId(workers) \/ last'.op = "start")
          => /\ OneRecordPerId(workers')
             /\ IdsOf(workers') \subseteq 0..(run_workers' - 1)
             /\ Len(workers') <= run_workers'
             /\ last'.op = "tick" => IdsOf(workers') \subseteq IdsOf(workers)]_vars

\* the replacements the last check_workers spawned for worker id
RespawnsFor(log, id) ==
    Cardinality({k \in DOMAIN log : log[k].id = id /\ log[k].how = "respawned"})

\* ---- C25: one check_workers spawns at most one replacement per worker id and
\* adds at most one to that id's respawn count, also when the replacement is dead
\* at once (it is first looked at by a later tick).
C25_OneRespawnPerTick ==
    [][last'.op = "tick" =>
          \A id \in 0..(MaxWorkers - 1) :
              /\ RespawnsFor(tick_log', id) <= 1
              /\ (id \in DOMAIN respawn_counts /\ id \in DOMAIN respawn_counts')
                    => respawn_counts'[id] <= respawn_counts[id] + 1
              /\ (id \notin DOMAIN respawn_counts /\ id \in DOMAIN respawn_counts')
                    => respawn_counts'[id] <= 1]_vars

\* C25 for the ticks that handle no record they appended themselves
C25_UnlessDeadAtOnce ==
    [][(/\ last'.op = "tick"
        /\ Len(tick_log') <= Cardinality({i \in DOMAIN workers : ~workers[i].alive})
        /\ OneRecordPerId(workers)) =>
          \A id \in 0..(MaxWorkers - 1) :
              /\ RespawnsFor(tick_log', id) <= 1
              /\ (id \in DOMAIN respawn_counts /\ id \in DOMAIN respawn_counts')
                    => respawn_counts'[id] <= respawn_counts[id] + 1]_vars

\* a target rounded up to a whole number of chunks, in MB
RoundedUp(mb) == ((mb + ChunkMB - 1) \div ChunkMB) * ChunkMB

\* the allocator threads that are about to add a chunk: in the loop body, or at a
\* loop test that lets them go on
Growing ==
    {k \in DOMAIN ram_threads :
        ram_threads[k].pc = "alloc" \/ LoopTest(ram_threads[k])}

\* ---- C26: at most one allocator thread grows the pool at any time; while a run
\* is active the pool holds no more than that run's clamped target rounded up to a
\* whole chunk; a thread launched by an earlier run adds no chunk during a later
\* run, also when start follows stop before the old thread has seen the stop.
C26_OneAllocatorPerRun ==
    /\ [](Cardinality(Growing) <= 1)
    /\ [](is_running => ram_hog * ChunkMB <= RoundedUp(run_target))
    /\ [][ram_hog' > ram_hog =>
             \E k \in DOMAIN ram_threads :
                 /\ ram_threads[k].pc = "alloc"
                 /\ ram_threads'[k].allocated > ram_threads[k].allocated
                 /\ ram_threads[k].run = runs]_vars

\* ------------------------------------------------------------ specifications
Fates == [1..MaxFates -> {"ok", "dies", "fail"}]
NoFates == [1..MaxFates -> {"ok"}]
Positions == 1..MaxRecords

\* the clock, the worker processes and the handlers that exist in every use of the
\* supervisor, under the inputs P allows
Core(P) ==
    \/ \E d \in P.deltas : Advance(d, P.horizon)
    \/ \E i \in Positions : WorkerDies(i)
    \/ \E n \in P.workers, ram \in P.rams, dur \in P.durations, hy \in P.hydras,
          t \in P.baselines, av \in P.avails, f \in 0..MaxWorkers :
            /\ f < n => P.fail
            /\ Start(n, ram, dur, hy, t, av, f, P.runs)
    \/ \E t \in P.readings, fate \in P.fates, hung \in SUBSET Positions :
            /\ hung # {} => P.hung
            /\ Tick(t, fate, hung, P.horizon)
    \/ \E hung \in SUBSET Positions :
            /\ hung # {} => P.hung
            /\ Stop(hung, P.horizon)

\* ---- Spec: every handler of the supervisor, hydra mode off and no sensor, workers
\* that may fail to start or to stop, on a clock that moves in steps longer than the
\* respawn window
Main == [deltas |-> {respawn_window + 1}, horizon |-> MaxTime, workers |-> 1..MaxWorkers,
         rams |-> {0}, durations |-> {12}, hydras |-> {FALSE}, baselines |-> {EmptyMap},
         readings |-> {EmptyMap}, avails |-> {100}, fail |-> TRUE, fates |-> NoFates,
         hung |-> TRUE, runs |-> MaxRuns]

Next ==
    \/ Core(Main)
    \/ Pause
    \/ Resume

Spec == Init /\ [][Next]_vars

\* ---- SpecHydra: one run in hydra mode, the clock moving by the respawn window or
\* just more, every outcome of a respawn
Hydra == [deltas |-> {respawn_window, respawn_window + 1}, horizon |-> respawn_window + 2,
          workers |-> 1..MaxWorkers, rams |-> {0}, durations |-> {30}, hydras |-> {TRUE},
          baselines |-> {EmptyMap}, readings |-> {EmptyMap}, avails |-> {100},
          fail |-> TRUE, fates |-> Fates, hung |-> FALSE, runs |-> 1]

NextHydra == Core(Hydra)

SpecHydra == Init /\ [][NextHydra]_vars

\* ---- SpecWindow: one run of one worker in hydra mode over two respawn windows,
\* every outcome of a respawn
Window == [deltas |-> {respawn_window, respawn_window + 1}, horizon |-> MaxTime,
           workers |-> {1}, rams |-> {0}, durations |-> {30}, hydras |-> {TRUE},
           baselines |-> {EmptyMap}, readings |-> {EmptyMap}, avails |-> {100},
           fail |-> TRUE, fates |-> Fates, hung |-> FALSE, runs |-> 1]

NextWindow == Core(Window)

SpecWindow == Init /\ [][NextWindow]_vars

\* ---- SpecPaused: one run of one worker in hydra mode, paused and resumed, with a
\* sensor that reads or not
Paused == [deltas |-> {respawn_window + 1}, horizon |-> MaxTime, workers |-> {1},
           rams |-> {0}, durations |-> {12}, hydras |-> {TRUE},
           baselines |-> TempMaps, readings |-> TempMaps, avails |-> {100},
           fail |-> FALSE, fates |-> NoFates, hung |-> FALSE, runs |-> 1]

NextPaused ==
    \/ Core(Paused)
    \/ Pause
    \/ Resume

SpecPaused == Init /\ [][NextPaused]_vars

\* ---- SpecRestart: runs of one worker in hydra mode, one after the other
Restart == [deltas |-> {respawn_window + 1}, horizon |-> MaxTime, workers |-> {1},
            rams |-> {0}, durations |-> {12}, hydras |-> {TRUE},
            baselines |-> {EmptyMap}, readings |-> {EmptyMap}, avails |-> {100},
            fail |-> FALSE, fates |-> NoFates, hung |-> FALSE, runs |-> MaxRuns]

NextRestart == Core(Restart)

SpecRestart == Init /\ [][NextRestart]_vars

\* ---- SpecClock: the run clock second by second
ClockHorizon == 8

Clock == [deltas |-> {1, 2}, horizon |-> ClockHorizon, workers |-> {1},
          rams |-> {0}, durations |-> {3}, hydras |-> {FALSE},
          baselines |-> {EmptyMap}, readings |-> {EmptyMap}, avails |-> {100},
          fail |-> TRUE, fates |-> NoFates, hung |-> TRUE, runs |-> MaxRuns]

NextClock ==
    \/ Core(Clock)
    \/ Pause
    \/ Resume

SpecClock == Init /\ [][NextClock]_vars

\* ---- SpecPool: the allocator threads against start and stop
Pool == [deltas |-> {respawn_window + 1}, horizon |-> MaxTime, workers |-> {1},
         rams |-> RamTargets, durations |-> {12}, hydras |-> {FALSE},
         baselines |-> {EmptyMap}, readings |-> {EmptyMap}, avails |-> AvailMB,
         fail |-> FALSE, fates |-> NoFates, hung |-> FALSE, runs |-> MaxRuns]

NextPool ==
    \/ Core(Pool)
    \/ \E k \in 1..MaxThreads : AllocCheck(k)
    \/ \E k \in 1..MaxThreads, oom \in BOOLEAN : AllocChunk(k, oom)

SpecPool == Init /\ [][NextPool]_vars

\* ---- SpecAlloc: the same, each allocator thread being scheduled again and again
AllocFairness ==
    WF_vars(\E k \in 1..MaxThreads : AllocCheck(k) \/ \E oom \in BOOLEAN : AllocChunk(k, oom))

\* one step of the clock is enough here: the allocator reads no time
Alloc == [Pool EXCEPT !.horizon = respawn_window + 2, !.runs = 2]

NextAlloc ==
    \/ Core(Alloc)
    \/ \E k \in 1..MaxThreads : AllocCheck(k)
    \/ \E k \in 1..MaxThreads, oom \in BOOLEAN : AllocChunk(k, oom)

SpecAlloc == Init /\ [][NextAlloc]_vars /\ AllocFairness

\* ---- SpecEnds: one run of one worker in hydra mode with its allocator thread
Ends == [deltas |-> {respawn_window + 1}, horizon |-> MaxTime, workers |-> {1},
         rams |-> {15}, durations |-> {12}, hydras |-> {TRUE},
         baselines |-> {EmptyMap}, readings |-> {EmptyMap}, avails |-> {100},
         fail |-> FALSE, fates |-> NoFates, hung |-> FALSE, runs |-> 1]

NextEnds ==
    \/ Core(Ends)
    \/ Pause
    \/ Resume
    \/ \E k \in 1..MaxThreads : AllocCheck(k)
    \/ \E k \in 1..MaxThreads, oom \in BOOLEAN : AllocChunk(k, oom)

SpecEnds == Init /\ [][NextEnds]_vars

\* ---- SpecLive: one run of one worker whose clock, ticks and resumes keep coming.
\* The clock of the model ends at ClockHorizon, so a run starts, and a pause lasts,
\* only while the seconds left until then cover what is left of the duration.
LiveDuration == 3

TimeLeft == LiveDuration - (run_wall - run_paused)

LiveAdvance ==
    \E d \in {1, 2} :
        /\ (is_running /\ is_paused) => now + d + Max(0, TimeLeft) <= ClockHorizon
        /\ Advance(d, ClockHorizon)

LiveStart ==
    \E t \in TempMaps :
        /\ now + LiveDuration <= ClockHorizon
        /\ Start(1, 0, LiveDuration, FALSE, t, 100, 1, 1)

LiveTick == \E t \in TempMaps, fate \in NoFates : Tick(t, fate, {}, ClockHorizon)

NextLive ==
    \/ LiveAdvance
    \/ \E i \in Positions : WorkerDies(i)
    \/ LiveStart
    \/ LiveTick
    \/ Stop({}, ClockHorizon)
    \/ Pause
    \/ Resume

\* while the test runs unpaused the clock moves on and update_ui, which reschedules
\* itself every 250 ms, ticks; a paused test is resumed
LiveFairness ==
    /\ SF_vars(LiveAdvance /\ is_running /\ ~is_paused)
    /\ SF_vars(LiveTick /\ is_running /\ ~is_paused)
    /\ WF_vars(Resume /\ is_paused)

SpecLive == Init /\ [][NextLive]_vars /\ LiveFairness

\* ---- SpecReport: the report generator on every state a stop can leave
InitReport ==
    /\ start_time = Some(1)
    /\ \E a \in ReportActuals : now = 1 + a /\ actual_duration = Some(a) /\ run_wall = a
    /\ target_duration \in {Some(t) : t \in ReportTargets}
    /\ respawn_counts \in ReportCounts
    /\ last_respawn_time = [id \in DOMAIN respawn_counts |-> 1]
    /\ initial_temps \in ReportMaps
    /\ temp_readings \in ReportHistories
    /\ peak_temps = PeaksOf(initial_temps, temp_readings, 1)
    /\ is_running = FALSE
    /\ is_paused = FALSE
    /\ pause_event = FALSE
    /\ pause_start_time = None
    /\ accumulated_pause_time = 0
    /\ hydra_mode = TRUE
    /\ workers = <<>>
    /\ ram_hog = 0
    /\ ram_threads = <<>>
    /\ last = [op |-> "stop", res |-> "ok", err |-> ReportErr]
    /\ tick_log = <<>>
    /\ stop_log = <<>>
    /\ exhausted = {}
    /\ live_procs = 0
    /\ run_paused = 0
    /\ runs = 1
    /\ run_respawns = TotalRespawns(respawn_counts)
    /\ run_workers = Cardinality(DOMAIN respawn_counts)
    /\ run_target = 0
    /\ proc = NoProc
    /\ report = GenerateReport(respawn_counts, Val(actual_duration), Val(target_duration),
                               temp_readings, initial_temps, peak_temps)

NextReport == Report

SpecReport == InitReport /\ [][NextReport]_vars

\* ---- SpecWorker: one worker process of a run against pause, resume and stop
\* the state start_stress_test(1, 0, 0, False) leaves at time 1, its allocator
\* having returned
InitWorker ==
    /\ now = 1
    /\ is_running = TRUE
    /\ is_paused = FALSE
    /\ pause_event = FALSE
    /\ start_time = Some(1)
    /\ pause_start_time = None
    /\ accumulated_pause_time = 0
    /\ hydra_mode = FALSE
    /\ target_duration = Some(0)
    /\ actual_duration = None
    /\ workers = SpawnAll(<<>>, 0, 1)
    /\ respawn_counts = EmptyMap
    /\ last_respawn_time = EmptyMap
    /\ temp_readings = <<>>
    /\ initial_temps = EmptyMap
    /\ peak_temps = EmptyMap
    /\ ram_hog = 0
    /\ ram_threads = <<>>
    /\ last = [op |-> "start", res |-> "ok", err |-> "none"]
    /\ tick_log = <<>>
    /\ stop_log = <<>>
    /\ exhausted = {}
    /\ live_procs = 1
    /\ run_wall = 0
    /\ run_paused = 0
    /\ runs = 1
    /\ run_respawns = 0
    /\ run_workers = 1
    /\ run_target = 0
    /\ proc = FreshProc
    /\ report = None

\* the caller of stop_stress_test waits in join(): no other handler runs then
NextWorker ==
    \/ hydra_worker
    \/ StopSignal
    \/ ~proc.stop_event /\ Pause
    \/ ~proc.stop_event /\ Resume
    \/ \E d \in {1, 2} : Advance(d, ClockHorizon)

\* the operating system schedules the process again and again
WorkerFairness == WF_vars(hydra_worker)

SpecWorker == InitWorker /\ [][NextWorker]_vars /\ WorkerFairness
====
